---- MODULE Spec2Model ----
(***************************************************************************)
(* Model of neuralpredictors/utils.py: flatten_json (the Flattener) and    *)
(* load_dict_from_hdf5 / recursively_load_dict_contents_from_group (the    *)
(* Hierarchical Loader).                                                   *)
(*                                                                         *)
(* Text is modelled as a sequence of one-character strings, so that        *)
(* concatenation (name + key + "_"), slicing (name[:-1]) and splitting on  *)
(* the separator are computed, not assumed.                                *)
(*                                                                         *)
(* Two specifications share the variables: FlattenSpec runs one call of    *)
(* flatten_json on every tree of the bounded input set, LoadSpec runs one  *)
(* call of load_dict_from_hdf5 on every store of the bounded store set.    *)
(***************************************************************************)
EXTENDS Integers, Sequences, FiniteSets, TLC

VARIABLES
    \* ---- flatten_json ----
    nested_dict,        \* the argument
    keep_nested_name,   \* the argument
    out,                \* the local dict `out`: key text -> value
    stack,              \* pending calls of the inner flatten(x, name), next first
    fpc,                \* "run" | "returned" | "raised" ("idle" under LoadSpec)
    returned,           \* what the caller received: {} or {the mapping}
    \* ---- load_dict_from_hdf5 ----
    store,              \* the file's root group
    handle,             \* "none" | "open" | "closed"
    frames,             \* activations of recursively_load_..., innermost first
    lpc,                \* "start" | "call" | "load" | "return" | "unwind" | "done" |
                        \* "raised" ("idle" under FlattenSpec)
    result,             \* what the caller received: {} or {the nested mapping}
    err,                \* the exception in flight or raised: "none" or its kind
    removal             \* how the store was prepared: the indexed child deleted
                        \* from a marked group of n children, or NoRemoval

fvars == <<nested_dict, keep_nested_name, out, stack, fpc, returned>>
lvars == <<store, handle, frames, lpc, result, err, removal>>
vars == <<nested_dict, keep_nested_name, out, stack, fpc, returned,
          store, handle, frames, lpc, result, err, removal>>

\* Leaf values are 1..MaxVal (flatten_json) and dataset contents (loader).
MaxVal == 2

Values == 1..MaxVal

(***************************************************************************)
(* Generic helpers.                                                        *)
(***************************************************************************)
RECURSIVE ConcatAll(_)
ConcatAll(ss) == IF ss = <<>> THEN <<>> ELSE Head(ss) \o ConcatAll(Tail(ss))

\* The empty Python dict / a dict with one more (or one replaced) entry.
EmptyMap == <<>>

MapPut(m, k, v) == [j \in (DOMAIN m) \cup {k} |-> IF j = k THEN v ELSE m[j]]

InjectiveSeqs(S) ==
    {s \in UNION {[1..n -> S] : n \in 0..Cardinality(S)} :
        \A i, j \in DOMAIN s : i # j => s[i] # s[j]}

(***************************************************************************)
(* flatten_json: the input trees.                                          *)
(* A node is a dict (insertion-ordered items with distinct keys), a list,  *)
(* or any other value (a leaf).                                            *)
(***************************************************************************)
Sep == "_"

Leaf(v) == [kind |-> "leaf", val |-> v]

ListOf(es) == [kind |-> "list", elems |-> es]

Entry(k, n) == [key |-> k, node |-> n]

DictOf(its) == [kind |-> "dict", items |-> its]

\* Key names of the bounded input set: one plain name and one that holds
\* the separator character.
Names == {<<"a">>, <<"a", "_", "a">>}

PlainNames == {n \in Names : \A i \in DOMAIN n : n[i] # Sep}

Leaves == {Leaf(v) : v \in Values}

\* List-valued nodes: a list holding a leaf and a dict.
Lists == {ListOf(<<Leaf(v), DictOf(<<Entry(<<"a">>, Leaf(v))>>)>>) : v \in Values}

Atoms == Leaves \cup Lists

\* The dict with keys ks, in that order, and values cs.
MakeDict(ks, cs) == DictOf([i \in 1..Len(ks) |-> Entry(ks[i], cs[i])])

KeySeqs == InjectiveSeqs(Names)

\* The dicts of atoms: what a dict of the input may hold besides atoms.
InnerDicts ==
    UNION {{MakeDict(ks, cs) : cs \in [1..Len(ks) -> Atoms]} : ks \in KeySeqs}

\* The inputs: an atom, or a dict of atoms and dicts of atoms.
IsInputTree(x) ==
    \/ x \in Atoms
    \/ \E ks \in KeySeqs :
          \E cs \in [1..Len(ks) -> Atoms \cup InnerDicts] : x = MakeDict(ks, cs)

(***************************************************************************)
(* flatten_json: the code.                                                 *)
(***************************************************************************)
\* name[:-1]
DropLast(name) == IF name = <<>> THEN <<>> ELSE SubSeq(name, 1, Len(name) - 1)

\* (name if keep_nested_name else "") + key + "_", after two faulty
\* variants: the separator forgotten, the prefix always dropped.
ChildNameNoSep(name, key) == (IF keep_nested_name THEN name ELSE <<>>) \o key

ChildNameFlat(name, key) == key \o <<Sep>>

ChildName(name, key) == (IF keep_nested_name THEN name ELSE <<>>) \o key \o <<Sep>>

\* The calls flatten would make on a list if it recursed into lists, each
\* element under its index as text (it does not: DispatchListToo is the
\* faulty variant the list claim is tested against).
ListCalls(x, name) ==
    [i \in 1..Len(x.elems) |->
        [node |-> x.elems[i], name |-> ChildName(name, <<ToString(i - 1)>>)]]

DictCalls(x, name) ==
    [i \in 1..Len(x.items) |->
        [node |-> x.items[i].node, name |-> ChildName(name, x.items[i].key)]]

DispatchListToo(x, name) ==
    IF x.kind = "dict" THEN [leaf |-> FALSE, calls |-> DictCalls(x, name)]
    ELSE IF x.kind = "list" THEN [leaf |-> FALSE, calls |-> ListCalls(x, name)]
    ELSE [leaf |-> TRUE, calls |-> <<>>]

\* if isinstance(x, dict): for key, value in x.items(): flatten(value, ...)
\* else: (record x)
Dispatch(x, name) ==
    IF x.kind = "dict" THEN [leaf |-> FALSE, calls |-> DictCalls(x, name)]
    ELSE [leaf |-> TRUE, calls |-> <<>>]

\* name[:-1] in out, after the faulty variant that never finds the key.
InOutNever(name, o) == FALSE

InOut(name, o) == DropLast(name) \in DOMAIN o

\* out[name[:-1]] = x
Record(name, x, o) == MapPut(o, DropLast(name), x)

InitFlattenCall ==
    /\ IsInputTree(nested_dict)
    /\ keep_nested_name \in BOOLEAN
    /\ out = EmptyMap
    /\ stack = <<[node |-> nested_dict, name |-> <<>>]>>
    /\ fpc = "run"
    /\ returned = {}

\* flatten(x, name) on a dict: one call per item, in the dict's order.
FlattenRecurse ==
    /\ fpc = "run" /\ stack # <<>>
    /\ LET top == Head(stack)
           d == Dispatch(top.node, top.name)
       IN  /\ ~d.leaf
           /\ stack' = d.calls \o Tail(stack)
    /\ UNCHANGED <<nested_dict, keep_nested_name, out, fpc, returned>>
    /\ UNCHANGED lvars

\* flatten(x, name) on anything else, the key being new.
FlattenRecord ==
    /\ fpc = "run" /\ stack # <<>>
    /\ LET top == Head(stack)
       IN  /\ Dispatch(top.node, top.name).leaf
           /\ ~InOut(top.name, out)
           /\ out' = Record(top.name, top.node, out)
           /\ stack' = Tail(stack)
    /\ UNCHANGED <<nested_dict, keep_nested_name, fpc, returned>>
    /\ UNCHANGED lvars

\* flatten(x, name) on anything else, the key being present: ValueError
\* leaves every activation; flatten_json returns nothing.
FlattenRaise ==
    /\ fpc = "run" /\ stack # <<>>
    /\ LET top == Head(stack)
       IN  /\ Dispatch(top.node, top.name).leaf
           /\ InOut(top.name, out)
    /\ fpc' = "raised"
    /\ stack' = <<>>
    /\ UNCHANGED <<nested_dict, keep_nested_name, out, returned>>
    /\ UNCHANGED lvars

\* return out
FlattenReturn ==
    /\ fpc = "run" /\ stack = <<>>
    /\ fpc' = "returned"
    /\ returned' = {out}
    /\ UNCHANGED <<nested_dict, keep_nested_name, out, stack>>
    /\ UNCHANGED lvars

(***************************************************************************)
(* The loader: the store. A node is a dataset (an element type tag and a   *)
(* content) or a group (the "_iterable" attribute and the children in the  *)
(* order the store enumerates them).                                       *)
(***************************************************************************)
Dataset(dt, d) == [kind |-> "dataset", dtype |-> dt, data |-> d]

Group(m, ks) == [kind |-> "group", marker |-> m, kids |-> ks]

Kid(n, x) == [name |-> n, node |-> x]

\* item.attrs.get("_iterable", False): absent, stored False, stored True.
Markers == {"missing", "false", "true"}

\* dtype.char: "S" fixed-width byte strings, "i" integers.
DTypes == {"S", "i"}

\* A marked group's children are looked up as "0", "1", ...; "x" is a
\* child name that is no index.
KidNames == {"0", "1", "2", "x"}

\* Children per group of the bounded store set.
MaxKids == 3

Datasets == {Dataset(dt, d) : dt \in DTypes, d \in Values}

\* The children named ns, enumerated in that order, with nodes cs.
MakeKids(ns, cs) == [i \in 1..Len(ns) |-> Kid(ns[i], cs[i])]

NameSeqs(w) == {s \in InjectiveSeqs(KidNames) : Len(s) <= w}

\* Groups of at most one dataset.
SmallGroups ==
    UNION {{Group(m, MakeKids(ns, cs)) : m \in Markers, cs \in [1..Len(ns) -> Datasets]} :
              ns \in NameSeqs(1)}

\* A group holding one small group, under an index name or another name.
WrapGroups ==
    {Group(m, <<Kid(n, g)>>) : m \in Markers, n \in {"h", "0"}, g \in SmallGroups}

\* The files: the root group, empty or holding "g": a dataset, a group of
\* at most MaxKids datasets, or a group holding one small group.
IsStore(st) ==
    \/ st = Group("missing", <<>>)
    \/ \E x \in Datasets \cup WrapGroups : st = Group("missing", <<Kid("g", x)>>)
    \/ \E m \in Markers : \E ns \in NameSeqs(MaxKids) :
          \E cs \in [1..Len(ns) -> Datasets] :
              st = Group("missing", <<Kid("g", Group(m, MakeKids(ns, cs)))>>)

(***************************************************************************)
(* The loader: values. A dataset's content read with item[()] is bytes     *)
(* for a byte-string dataset and raw otherwise; astype(str) makes text.    *)
(* The nested mapping holds values, lists of values and mappings.          *)
(***************************************************************************)
RVal(v) == [kind |-> "value", v |-> v]

RList(es) == [kind |-> "list", elems |-> es]

RDict(m) == [kind |-> "dict", map |-> m]

\* item[()]
RawValue(ds) == [enc |-> IF ds.dtype = "S" THEN "bytes" ELSE "raw", data |-> ds.data]

\* v.astype(str)
AsStr(v) == [enc |-> "text", data |-> v.data]

\* dtype = item.dtype; v = item[()]; if dtype.char == "S": v = v.astype(str)
LeafValue(ds) == IF ds.dtype = "S" THEN AsStr(RawValue(ds)) ELSE RawValue(ds)

\* group[name]: the children of that name (none: KeyError).
Child(g, n) == {g.kids[i].node : i \in {j \in DOMAIN g.kids : g.kids[j].name = n}}

\* h5file[path]: the path's segments walked from the root.
RECURSIVE Walk(_, _)
Walk(x, segs) ==
    IF segs = <<>> THEN {x}
    ELSE IF x.kind # "group" THEN {}
    ELSE UNION {Walk(c, Tail(segs)) : c \in Child(x, Head(segs))}

IsSegment(t) == t # "/"

Resolve(path) == Walk(store, SelectSeq(path, IsSegment))

RootPath == <<"/">>

\* path + key + "/", after the faulty variant that drops the prefix.
SubPathKeyOnly(path, key) == <<key, "/">>

SubPath(path, key) == path \o <<key, "/">>

\* item.attrs.get("_iterable", False)
IsIterable(item) == item.marker = "true"

\* [item[str(i)][()] for i in range(len(item))]: the list, or the error of
\* the first index that fails (no such child: KeyError; the child is a
\* group, which takes no [()]: TypeError).
IndexFails(item, i) ==
    \/ Child(item, ToString(i)) = {}
    \/ \E c \in Child(item, ToString(i)) : c.kind # "dataset"

ReadIndices(item, n) ==
    LET bad == {i \in 0..(n - 1) : IndexFails(item, i)}
    IN  IF bad = {}
        THEN [ok |-> TRUE, err |-> "none",
              elems |-> [j \in 1..n |->
                           RawValue(CHOOSE c \in Child(item, ToString(j - 1)) : TRUE)]]
        ELSE LET i == CHOOSE i \in bad : \A j \in bad : i <= j
             IN  [ok |-> FALSE, elems |-> <<>>,
                  err |-> IF Child(item, ToString(i)) = {} THEN "KeyError"
                          ELSE "TypeError"]

\* Faulty variants of the list comprehension, which the claims must tell
\* from it: the children in storage order; only the index-named children
\* counted; a missing index skipped.
IndexNames == {ToString(i) : i \in 0..Cardinality(KidNames)}

ReadIterableStorageOrder(item) ==
    IF \E i \in DOMAIN item.kids : item.kids[i].node.kind # "dataset"
    THEN ReadIndices(item, Len(item.kids))
    ELSE [ok |-> TRUE, err |-> "none",
          elems |-> [j \in 1..Len(item.kids) |-> RawValue(item.kids[j].node)]]

ReadIterableIndexNamed(item) ==
    ReadIndices(item, Cardinality({i \in DOMAIN item.kids :
                                      item.kids[i].name \in IndexNames}))

ReadIterableSkipMissing(item) ==
    LET there == {i \in 0..(Len(item.kids) - 1) : ~IndexFails(item, i)}
    IN  ReadIndices(item, Cardinality(there))

ReadIterable(item) == ReadIndices(item, Len(item.kids))

\* `with h5py.File(...)`: the handle after the block is left, by return or
\* by an exception (after the faulty variant that closes on return only).
WithExitOnReturnOnly(raising) == IF raising THEN "open" ELSE "closed"

WithExit(raising) == "closed"

\* The activation of recursively_load_dict_contents_from_group at `path`:
\* ans = {} and the items of h5file[path] still to visit.
Frame(path, g) == [path |-> path, todo |-> g.kids, ans |-> EmptyMap]

FlattenIdle ==
    /\ nested_dict = DictOf(<<>>) /\ keep_nested_name = TRUE /\ out = EmptyMap
    /\ stack = <<>> /\ fpc = "idle" /\ returned = {}

\* How a store came to be: as it is, or by deleting the child named
\* str(idx) from a marked group of datasets "0".."n-1" under the root.
NoRemoval == [idx |-> 0, n |-> 0]

KidNameSet(g) == {g.kids[i].name : i \in DOMAIN g.kids}

IdxNameSet(n) == {ToString(i) : i \in 0..(n - 1)}

AllDatasets(g) == \A i \in DOMAIN g.kids : g.kids[i].node.kind = "dataset"

Removals(st) ==
    {NoRemoval} \cup
    UNION {{[idx |-> j, n |-> Len(st.kids[i].node.kids) + 1] :
               j \in {j \in 0..Len(st.kids[i].node.kids) :
                         KidNameSet(st.kids[i].node) =
                             IdxNameSet(Len(st.kids[i].node.kids) + 1) \ {ToString(j)}}} :
              i \in {i \in DOMAIN st.kids :
                        /\ st.kids[i].node.kind = "group"
                        /\ st.kids[i].node.marker = "true"
                        /\ AllDatasets(st.kids[i].node)}}

LoadIdle ==
    /\ store = Group("missing", <<>>) /\ handle = "none" /\ frames = <<>>
    /\ lpc = "idle" /\ result = {} /\ err = "none" /\ removal = NoRemoval

InitLoadCall ==
    /\ IsStore(store)
    /\ removal \in Removals(store)
    /\ handle = "none"
    /\ frames = <<>>
    /\ lpc = "start"
    /\ result = {}
    /\ err = "none"

\* h5py.File(filename, "r") succeeds: the with block is entered.
OpenFile ==
    /\ lpc = "start"
    /\ handle' = "open"
    /\ lpc' = "call"
    /\ UNCHANGED <<store, frames, result, err, removal>>
    /\ UNCHANGED fvars

\* h5py.File(filename, "r") raises: there is no handle.
OpenFails ==
    /\ lpc = "start"
    /\ lpc' = "raised"
    /\ err' = "OSError"
    /\ UNCHANGED <<store, handle, frames, result, removal>>
    /\ UNCHANGED fvars

\* The exception leaves every activation.
Raise(e) ==
    /\ lpc' = "unwind"
    /\ err' = e
    /\ frames' = <<>>
    /\ UNCHANGED <<store, handle, result, removal>>

\* A call of recursively_load_dict_contents_from_group(h5file, path) from
\* the activations `rest`.
Call(path, rest) ==
    LET r == Resolve(path)
    IN  IF r = {} THEN Raise("KeyError")
        ELSE LET g == CHOOSE g \in r : TRUE
             IN  IF g.kind # "group" THEN Raise("AttributeError")
                 ELSE /\ frames' = <<Frame(path, g)>> \o rest
                      /\ UNCHANGED <<store, handle, lpc, result, err, removal>>

\* recursively_load_dict_contents_from_group(h5file)
CallRoot ==
    /\ lpc = "call"
    /\ lpc' = "load"
    /\ frames' = <<Frame(RootPath, CHOOSE g \in Resolve(RootPath) : TRUE)>>
    /\ UNCHANGED <<store, handle, result, err, removal>>
    /\ UNCHANGED fvars

Loading == lpc = "load" /\ frames # <<>> /\ Head(frames).todo # <<>>

\* The loop's next item is a dataset.
LoadDataset ==
    /\ Loading
    /\ LET f == Head(frames)
           k == Head(f.todo)
       IN  /\ k.node.kind = "dataset"
           /\ frames' = <<[f EXCEPT !.todo = Tail(f.todo),
                                    !.ans = MapPut(f.ans, k.name, RVal(LeafValue(k.node)))]>>
                        \o Tail(frames)
    /\ UNCHANGED <<store, handle, lpc, result, err, removal>>
    /\ UNCHANGED fvars

\* The loop's next item is a group marked "_iterable".
LoadIterable ==
    /\ Loading
    /\ LET f == Head(frames)
           k == Head(f.todo)
       IN  /\ k.node.kind = "group"
           /\ IsIterable(k.node)
           /\ LET r == ReadIterable(k.node)
              IN  IF r.ok
                  THEN /\ frames' = <<[f EXCEPT !.todo = Tail(f.todo),
                                                !.ans = MapPut(f.ans, k.name, RList(r.elems))]>>
                                    \o Tail(frames)
                       /\ UNCHANGED <<store, handle, lpc, result, err, removal>>
                  ELSE Raise(r.err)
    /\ UNCHANGED fvars

\* The loop's next item is any other group: the recursive call.
EnterGroup ==
    /\ Loading
    /\ LET f == Head(frames)
           k == Head(f.todo)
       IN  /\ k.node.kind = "group"
           /\ ~IsIterable(k.node)
           /\ Call(SubPath(f.path, k.name), frames)
    /\ UNCHANGED fvars

\* return ans, to the activation that called: ans[key] = (the mapping).
ReturnGroup ==
    /\ lpc = "load" /\ Len(frames) > 1 /\ Head(frames).todo = <<>>
    /\ LET f == Head(frames)
           p == frames[2]
           k == Head(p.todo)
       IN  frames' = <<[p EXCEPT !.todo = Tail(p.todo),
                                 !.ans = MapPut(p.ans, k.name, RDict(f.ans))]>>
                     \o Tail(Tail(frames))
    /\ UNCHANGED <<store, handle, lpc, result, err, removal>>
    /\ UNCHANGED fvars

\* return ans, to load_dict_from_hdf5: the value leaves the with block.
ReturnRoot ==
    /\ lpc = "load" /\ Len(frames) = 1 /\ Head(frames).todo = <<>>
    /\ result' = {RDict(Head(frames).ans)}
    /\ frames' = <<>>
    /\ lpc' = "return"
    /\ UNCHANGED <<store, handle, err, removal>>
    /\ UNCHANGED fvars

\* Any access to the store may raise a lower-level I/O error.
FailIO ==
    /\ lpc = "load" /\ frames # <<>>
    /\ Raise("OSError")
    /\ UNCHANGED fvars

\* The with block is left by the return.
CloseOnReturn ==
    /\ lpc = "return"
    /\ handle' = WithExit(FALSE)
    /\ lpc' = "done"
    /\ UNCHANGED <<store, frames, result, err, removal>>
    /\ UNCHANGED fvars

\* The with block is left by the exception, which goes on to the caller.
CloseOnError ==
    /\ lpc = "unwind"
    /\ handle' = WithExit(TRUE)
    /\ lpc' = "raised"
    /\ UNCHANGED <<store, frames, result, err, removal>>
    /\ UNCHANGED fvars

InitFlatten == InitFlattenCall /\ LoadIdle

NextFlatten == FlattenRecurse \/ FlattenRecord \/ FlattenRaise \/ FlattenReturn

FlattenSpec == InitFlatten /\ [][NextFlatten]_vars

InitLoad == InitLoadCall /\ FlattenIdle

NextLoad ==
    \/ OpenFile \/ OpenFails \/ CallRoot
    \/ LoadDataset \/ LoadIterable \/ EnterGroup
    \/ ReturnGroup \/ ReturnRoot \/ FailIO
    \/ CloseOnReturn \/ CloseOnError

LoadSpec == InitLoad /\ [][NextLoad]_vars

(***************************************************************************)
(* flatten_json: what the claims speak of, computed from the input tree    *)
(* alone.                                                                  *)
(***************************************************************************)
\* The tree's leaves (every node that is not a dict), in depth-first
\* pre-order, each with the sequence of names leading to it.
RECURSIVE LeafSeq(_, _)
LeafSeq(x, path) ==
    IF x.kind = "dict"
    THEN ConcatAll([i \in 1..Len(x.items) |->
                      LeafSeq(x.items[i].node, Append(path, x.items[i].key))])
    ELSE <<[path |-> path, node |-> x]>>

TreeLeafSeq == LeafSeq(nested_dict, <<>>)

\* The names of a path joined by the separator, none leading or trailing.
RECURSIVE JoinSep(_)
JoinSep(path) ==
    IF path = <<>> THEN <<>>
    ELSE IF Len(path) = 1 THEN path[1]
    ELSE path[1] \o <<Sep>> \o JoinSep(Tail(path))

\* The flattened key of a leaf under the active naming mode.
LeafKey(path) ==
    IF path = <<>> THEN <<>>
    ELSE IF keep_nested_name THEN JoinSep(path) ELSE path[Len(path)]

TreeLeafKeys == [i \in DOMAIN TreeLeafSeq |-> LeafKey(TreeLeafSeq[i].path)]

\* The position of the first leaf whose key an earlier leaf has; 0 if none.
FirstDuplicate ==
    LET ks == TreeLeafKeys
        dup == {i \in DOMAIN ks : \E j \in 1..(i - 1) : ks[j] = ks[i]}
    IN  IF dup = {} THEN 0 ELSE CHOOSE i \in dup : \A j \in dup : i <= j

\* A tree of Groups: dicts all the way down to plain leaf values.
RECURSIVE GroupsOnly(_)
GroupsOnly(x) ==
    /\ x.kind = "dict"
    /\ \A i \in DOMAIN x.items :
          \/ x.items[i].node.kind = "leaf"
          \/ GroupsOnly(x.items[i].node)

\* No name on any path of the tree holds the separator character.
PlainPaths ==
    \A i \in DOMAIN TreeLeafSeq :
        \A j \in DOMAIN TreeLeafSeq[i].path : TreeLeafSeq[i].path[j] \in PlainNames

\* key.split("_")
RECURSIVE SplitSep(_)
SplitSep(s) ==
    LET at == {i \in DOMAIN s : s[i] = Sep}
    IN  IF at = {} THEN <<s>>
        ELSE LET i == CHOOSE i \in at : \A j \in at : i <= j
             IN  <<SubSeq(s, 1, i - 1)>> \o SplitSep(SubSeq(s, i + 1, Len(s)))

\* Re-nesting a flat mapping puts each value at the path its key splits
\* into; the re-nested tree has the same leaf values at the same paths as
\* the original exactly when these (path, value) pairs are the original's.
RenestedLeaves(m) == {[path |-> SplitSep(k), node |-> m[k]] : k \in DOMAIN m}

TreeLeaves == {TreeLeafSeq[i] : i \in DOMAIN TreeLeafSeq}

(***************************************************************************)
(* flatten_json: the claims.                                               *)
(***************************************************************************)
\* C1: if two leaves compute the same key under the active naming mode,
\* flatten_json raises when the second is about to be inserted: out then
\* holds exactly the leaves before it, every key of out always carries the
\* value of the first leaf with that key (never overwritten), and the
\* caller receives no mapping. It raises for no other reason.
C1_DuplicateKeyRaises ==
    LET ls == TreeLeafSeq
        ks == TreeLeafKeys
        d == FirstDuplicate
    IN  /\ \A k \in DOMAIN out :
              \E i \in DOMAIN ks :
                  /\ ks[i] = k
                  /\ \A j \in 1..(i - 1) : ks[j] # k
                  /\ out[k] = ls[i].node
        /\ (d # 0 /\ fpc # "run") =>
              /\ fpc = "raised"
              /\ returned = {}
              /\ DOMAIN out = {ks[i] : i \in 1..(d - 1)}
        /\ fpc = "raised" => d # 0

\* C1 witness: a collision of joined names raised after an insertion.
C1_Witness ==
    /\ fpc = "raised" /\ keep_nested_name
    /\ out # EmptyMap /\ returned = {}

\* C2: for a tree of Groups whose computed keys are pairwise distinct,
\* flatten_json returns a mapping with exactly one entry per leaf, keyed by
\* the underscore-joined names from root to leaf (keep_nested_name) or by
\* the leaf's own name, and valued by that leaf.
C2_OneEntryPerLeaf ==
    LET ls == TreeLeafSeq
        ks == TreeLeafKeys
    IN  (fpc # "run" /\ GroupsOnly(nested_dict) /\ FirstDuplicate = 0) =>
            /\ fpc = "returned"
            /\ \E m \in returned :
                  /\ returned = {m}
                  /\ DOMAIN m = {ks[i] : i \in DOMAIN ks}
                  /\ Cardinality(DOMAIN m) = Len(ls)
                  /\ \A i \in DOMAIN ls : m[ks[i]] = ls[i].node

\* C2 witness: {a: {a: v, a_a: w}} flattened with joined names.
C2_Witness ==
    /\ fpc = "returned" /\ keep_nested_name /\ GroupsOnly(nested_dict)
    /\ \E m \in returned :
          /\ Cardinality(DOMAIN m) = 2
          /\ \A k \in DOMAIN m : Len(k) > 1

\* C3 as stated: whenever flatten_json with keep_nested_name returns for a
\* dict, re-nesting by splitting each key on "_" gives back the same leaf
\* values at the same paths.
C3_RoundTripAnyNames ==
    (fpc = "returned" /\ keep_nested_name /\ nested_dict.kind = "dict") =>
        \A m \in returned : RenestedLeaves(m) = TreeLeaves

\* C3 amended: the round trip holds for every dict none of whose names
\* holds the separator; for such a tree flatten_json does return.
C3_RoundTripPlainNames ==
    (fpc # "run" /\ keep_nested_name /\ nested_dict.kind = "dict" /\ PlainPaths) =>
        /\ fpc = "returned"
        /\ \E m \in returned : returned = {m} /\ RenestedLeaves(m) = TreeLeaves

\* C3 witness: a two-level path of plain names went round.
C3_Witness ==
    /\ fpc = "returned" /\ keep_nested_name /\ nested_dict.kind = "dict"
    /\ PlainPaths
    /\ \E l \in TreeLeaves : Len(l.path) = 2
    /\ \A m \in returned : RenestedLeaves(m) = TreeLeaves

\* C8 as stated: flatten recurses into list-valued nodes, so no entry of
\* the output has a whole sequence as its value.
C8_NoSequenceValued ==
    (fpc = "returned" /\ nested_dict.kind = "dict") =>
        \A m \in returned : \A k \in DOMAIN m : m[k].kind # "list"

\* C8 amended: flatten_json recurses into dicts only; a list-valued node is
\* recorded whole, as one entry under the key of its own path, and its
\* elements get no entries: the output has one entry per non-dict node.
C8_ListsRecordedWhole ==
    LET ls == TreeLeafSeq
        ks == TreeLeafKeys
    IN  fpc = "returned" =>
            \A m \in returned :
                /\ Cardinality(DOMAIN m) = Len(ls)
                /\ \A i \in DOMAIN ls :
                      ls[i].node.kind = "list" =>
                          ks[i] \in DOMAIN m /\ m[ks[i]] = ls[i].node

\* C8 witness: a returned mapping with a list as a value.
C8_Witness ==
    /\ fpc = "returned"
    /\ \E m \in returned : \E k \in DOMAIN m : m[k].kind = "list"

(***************************************************************************)
(* The loader: what the claims speak of, computed from the store and the   *)
(* returned mapping.                                                       *)
(***************************************************************************)
\* The groups the traversal comes to: the children of the root and of every
\* group that is entered (one not marked).
RECURSIVE Traversed(_)
Traversed(g) ==
    UNION {{g.kids[i].node} \cup
               (IF g.kids[i].node.marker # "true" THEN Traversed(g.kids[i].node) ELSE {}) :
              i \in {j \in DOMAIN g.kids : g.kids[j].node.kind = "group"}}

MarkedTraversed == {g \in Traversed(store) : g.marker = "true"}

\* Each store node the traversal comes to, with what the returned mapping
\* holds for it.
RECURSIVE Pairs(_, _)
Pairs(g, r) ==
    IF r.kind # "dict" THEN {}
    ELSE UNION {{[node |-> g.kids[i].node, r |-> r.map[g.kids[i].name]]} \cup
                    (IF /\ g.kids[i].node.kind = "group"
                        /\ g.kids[i].node.marker # "true"
                     THEN Pairs(g.kids[i].node, r.map[g.kids[i].name])
                     ELSE {}) :
                   i \in {j \in DOMAIN g.kids : g.kids[j].name \in DOMAIN r.map}}

LoadedPairs == UNION {{[node |-> store, r |-> r]} \cup Pairs(store, r) : r \in result}

IsRoot(p) == p.node = store /\ p.r \in result

\* The child of a marked group that str(i) names.
IndexedKid(g, i) == CHOOSE c \in Child(g, ToString(i)) : TRUE

\* A marked group of datasets named exactly "0".."n-1".
Complete(g) == AllDatasets(g) /\ KidNameSet(g) = IdxNameSet(Len(g.kids))

\* A marked group of datasets "0".."n-1" and other children, none of them
\* index-named.
IndexedPlusOthers(g) ==
    /\ AllDatasets(g)
    /\ \E n \in 0..(Len(g.kids) - 1) :
          /\ IdxNameSet(n) \subseteq KidNameSet(g)
          /\ (KidNameSet(g) \ IdxNameSet(n)) \cap IndexNames = {}

IndexedCount(g) == Cardinality(KidNameSet(g) \cap IndexNames)

\* What the claim has a dataset exposed as: text for a byte-string dataset,
\* the content as it is for any other.
ClaimedValue(ds) == [enc |-> IF ds.dtype = "S" THEN "text" ELSE "raw", data |-> ds.data]

Ended == lpc \in {"done", "raised"}

(***************************************************************************)
(* The loader: the claims.                                                 *)
(***************************************************************************)
\* C4 as stated: in the returned mapping every value from a byte-string
\* dataset is text and every other value is as stored, wherever the dataset
\* sits, the elements of a marked group included.
C4_ByteStringsExposedAsText ==
    lpc = "done" =>
        \A p \in LoadedPairs :
            /\ p.node.kind = "dataset" => p.r = RVal(ClaimedValue(p.node))
            /\ (p.node.kind = "group" /\ ~IsRoot(p) /\ p.node.marker = "true"
                    /\ p.r.kind = "list") =>
                  \A i \in DOMAIN p.r.elems :
                      \A c \in Child(p.node, ToString(i - 1)) :
                          p.r.elems[i] = ClaimedValue(c)

\* C5: a marked group of datasets named exactly "0".."n-1" is returned as
\* an n-element sequence whose element i has the content of child "i", in
\* whatever order the store enumerates the children; such groups cause no
\* error of the loader's own.
C5_OrderedByIndex ==
    /\ lpc = "done" =>
          \A p \in LoadedPairs :
              (p.node.kind = "group" /\ ~IsRoot(p) /\ p.node.marker = "true"
                   /\ Complete(p.node)) =>
                  /\ p.r.kind = "list"
                  /\ Len(p.r.elems) = Len(p.node.kids)
                  /\ \A i \in 0..(Len(p.node.kids) - 1) :
                        p.r.elems[i + 1].data = IndexedKid(p.node, i).data
    /\ (lpc = "raised" /\ \A g \in MarkedTraversed : Complete(g)) => err = "OSError"

\* C5 witness: three children enumerated in descending order, loaded.
C5_Witness ==
    /\ lpc = "done"
    /\ \E p \in LoadedPairs :
          /\ p.node.kind = "group" /\ p.node.marker = "true" /\ Complete(p.node)
          /\ Len(p.node.kids) = 3
          /\ p.node.kids[1].name = "2" /\ p.node.kids[3].name = "0"
          /\ p.node.kids[1].node.data # p.node.kids[3].node.data
          /\ p.r.kind = "list" /\ Len(p.r.elems) = 3

\* C6 as stated: after any one indexed child is removed from a marked group
\* of "0".."n-1", the load never returns.
C6_AnyRemovalFails == removal # NoRemoval => lpc # "done"

\* C6 amended: after an indexed child other than the last ("n-1") is
\* removed, the load never returns and fails with the store's not-found
\* error (or a lower-level I/O error); after the last is removed the group
\* is returned as a sequence of n-1 elements.
C6_NonLastRemovalFails ==
    /\ (removal # NoRemoval /\ removal.idx < removal.n - 1) =>
          /\ lpc \notin {"return", "done"}
          /\ lpc \in {"unwind", "raised"} => err \in {"KeyError", "OSError"}
    /\ (removal # NoRemoval /\ removal.idx = removal.n - 1 /\ lpc = "done") =>
          \A p \in LoadedPairs :
              (p.node.kind = "group" /\ ~IsRoot(p)) =>
                  p.r.kind = "list" /\ Len(p.r.elems) = removal.n - 1

\* C6 witness: "1" removed from "0".."2": KeyError, the handle closed.
C6_Witness ==
    /\ removal = [idx |-> 1, n |-> 3]
    /\ lpc = "raised" /\ err = "KeyError" /\ handle = "closed" /\ result = {}

\* C7: the handle is open throughout the traversal, and when the call has
\* ended, by return or by an exception raised at any depth, it is closed
\* (no handle exists only when the opening itself failed).
C7_HandleClosedOnEveryExit ==
    /\ lpc = "start" => handle = "none"
    /\ (frames # <<>> \/ lpc \in {"call", "load"}) => handle = "open"
    /\ lpc = "done" => handle = "closed"
    /\ lpc = "raised" => handle \in {"closed", "none"}
    /\ (lpc = "raised" /\ handle = "none") => err = "OSError"

\* C7 witness: not-found raised two groups deep, the handle closed.
C7_Witness ==
    /\ lpc = "raised" /\ err = "KeyError" /\ handle = "closed"
    /\ \E i \in DOMAIN store.kids :
          /\ store.kids[i].node.kind = "group"
          /\ store.kids[i].node.marker # "true"
          /\ \E j \in DOMAIN store.kids[i].node.kids :
                store.kids[i].node.kids[j].node.kind = "group"

\* C9: every group that is the root or is not marked is returned as a
\* mapping whose keys are exactly its children's names: a dataset child
\* maps to its value, a group child not marked to the mapping loaded for it
\* at the accumulated sub-path, and only a marked child to a sequence; a
\* store without marked groups causes no error of the loader's own.
C9_UnmarkedGroupIsMapping ==
    /\ lpc = "done" =>
          \A p \in LoadedPairs :
              (p.node.kind = "group" /\ (IsRoot(p) \/ p.node.marker # "true")) =>
                  /\ p.r.kind = "dict"
                  /\ DOMAIN p.r.map = KidNameSet(p.node)
                  /\ \A i \in DOMAIN p.node.kids :
                        LET k == p.node.kids[i]
                            v == p.r.map[k.name]
                        IN  /\ k.node.kind = "dataset" =>
                                  v.kind = "value" /\ v.v.data = k.node.data
                            /\ (k.node.kind = "group" /\ k.node.marker = "true") =>
                                  v.kind = "list"
                            /\ (k.node.kind = "group" /\ k.node.marker # "true") =>
                                  /\ v.kind = "dict"
                                  /\ DOMAIN v.map = KidNameSet(k.node)
    /\ (lpc = "raised" /\ MarkedTraversed = {}) => err = "OSError"

\* C9 witness: a dataset two unmarked groups deep, and an empty group.
C9_Witness ==
    /\ lpc = "done"
    /\ \E p \in LoadedPairs : \E q \in LoadedPairs :
          /\ p.node.kind = "group" /\ ~IsRoot(p) /\ p.node.marker = "false"
          /\ \E i \in DOMAIN p.node.kids :
                /\ p.node.kids[i].node = q.node
                /\ q.node.kind = "group" /\ q.node.marker = "missing"
                /\ q.r.kind = "dict" /\ Cardinality(DOMAIN q.r.map) = 1

\* C10 as stated: a marked group holding "0".."n-1" and other children with
\* names that are no integers is read at indices 0..n-1 and returned as an
\* n-element sequence.
C10_CountsIndexNamedOnly ==
    (Ended /\ err # "OSError" /\ \E g \in MarkedTraversed : IndexedPlusOthers(g)) =>
        /\ lpc = "done"
        /\ \A p \in LoadedPairs :
              (p.node.kind = "group" /\ ~IsRoot(p) /\ p.node.marker = "true") =>
                  p.r.kind = "list" /\ Len(p.r.elems) = IndexedCount(p.node)

\* C10 amended: the number of elements read from a marked group is the
\* count of all its children; a marked group holding "0".."n-1" and other
\* children is read at indices 0.. up to that count, and the load fails
\* with not-found at the first index that names no child.
C10_CountsAllChildren ==
    /\ lpc = "done" =>
          \A p \in LoadedPairs :
              (p.node.kind = "group" /\ ~IsRoot(p) /\ p.node.marker = "true") =>
                  p.r.kind = "list" /\ Len(p.r.elems) = Len(p.node.kids)
    /\ (\E g \in MarkedTraversed : IndexedPlusOthers(g)) =>
          /\ lpc \notin {"return", "done"}
          /\ lpc \in {"unwind", "raised"} => err \in {"KeyError", "OSError"}

\* C10 witness: "0", "1" and "x" in a marked group: KeyError.
C10_Witness ==
    /\ lpc = "raised" /\ err = "KeyError"
    /\ \E g \in MarkedTraversed :
          IndexedPlusOthers(g) /\ KidNameSet(g) = {"0", "1", "x"}

====
